---- MODULE Spec2Model ----
(***************************************************************************)
(* Notification scheduling and delivery subsystem of SmartReminder.        *)
(*                                                                         *)
(* The model follows the two variants of the notification module           *)
(* (src/unnamed/part_000, the grouping variant, and src/unnamed/part_001,  *)
(* the debounced variant) and their callers in src/lib/db.ts.              *)
(*                                                                         *)
(* Time is counted in whole seconds since the start of the run: every      *)
(* duration the code writes in milliseconds is written here without its    *)
(* factor 1000 (3 * 60 * 1000 ms is 3 * 60).  The grouping function takes  *)
(* its window as a parameter and is independent of the unit.               *)
(*                                                                         *)
(* Every asynchronous function is a process whose steps are the stretches  *)
(* of code between two awaits that touch the store or the clock; steps of  *)
(* different processes interleave freely, as the event loop allows.        *)
(***************************************************************************)
EXTENDS Integers, Sequences, FiniteSets, TLC

VARIABLES
  now,        \* Date.now(), in seconds
  ticks,      \* how many times the clock has advanced
  variant,    \* which variant of the notification module is loaded
  tasks,      \* object store "tasks": the ids of the tasks it holds
  store,      \* object store "scheduled-notifications": a set of records, keyed by id
  pass,       \* the running checkAndTriggerNotifications calls
  snooze,     \* the running snoozeNotification calls
  reminder,   \* the running scheduleTaskReminder calls
  presented,  \* history: per record id, how often it was handed to showNotification
  meta,       \* history: per record id, which call created it and with what
  callLog,    \* history: per reminder slot, the last scheduleTaskReminder call
  snoozeCalls,\* history: per task, how many snoozeNotification calls were made
  twice,      \* history: two evaluation passes run back to back, undisturbed
  gIn,        \* input of a stand-alone application of the grouping function
  gWindow,    \* its time window
  gOut,       \* its result
  gDone,      \* whether it has been applied
  sched,      \* the scheduler: its interval timers, listeners and pending checks
  ui,         \* the browser: notification permission, display channels, last display
  api,        \* the last markNotificationTriggered or deleteScheduledNotification call
  del,        \* the running deleteTask call
  sw          \* the service worker: open pages, database, messages, pending actions

vars == <<now, ticks, variant, tasks, store, pass, snooze, reminder, presented, meta,
          callLog, snoozeCalls, twice, gIn, gWindow, gOut, gDone, sched, ui, api, del, sw>>

groupVars == <<gIn, gWindow, gOut, gDone>>

\* the store, the clock and the calls that work on the store
coreVars == <<now, ticks, variant, tasks, store, pass, snooze, reminder, presented, meta,
              callLog, snoozeCalls, twice>>

\* what lies outside the store and the calls on it
auxVars == <<sched, ui, api, del, sw>>

\* the callers of the store outside the notification module
callerVars == <<api, del, sw>>

----------------------------------------------------------------------------
\* Bounds of the model

\* capacity of the notification store (ids are 1..MaxRecords)
MaxRecords == 3

\* number of times the clock advances
MaxTicks == 2

\* pages of the app open at once
MaxPages == 2

\* action clicks on notifications
MaxClicks == 3

\* number of records in the store while the browser around showNotification varies
MaxShown == 2

\* number of startNotificationScheduler calls
MaxStarts == 3

\* longest list handed to a stand-alone application of the grouping function
MaxDue == 4

----------------------------------------------------------------------------
\* Values

None == "none"

Ids == 1..MaxRecords

TaskIds == {"t1"}

Priorities == {"low", "normal", "high"}

Patterns == {"daily", "weekly", "monthly"}

Variants == {"grouping", "debounced"}

PassIds == {"timer", "event"}

SnoozeIds == {"s1", "s2"}

ReminderIds == {"r1"}

\* one day, in seconds
Day == 24 * 60 * 60

\* how far the clock moves in one advance
Deltas == {Day}

\* the minutes values snoozeNotification is called with
SnoozeMinutes == {0, 10}

\* reminder times of the tasks, as offsets from the clock at the call
ReminderOffsets == {0, 10 * 60}

\* times handed to scheduleNotification directly, as offsets from the clock
ScheduleOffsets == {10 * 60}

\* repeat intervals of the tasks and patterns of the recurring notifications
CallPatterns == {"daily"}

\* due dates handed to scheduleTaskReminder, as offsets from the reminder time
DueOffsets == {0 - 5 * 60, 0, 30 * 60, 60 * 60, 2 * 60 * 60}

\* the priority option of scheduleTaskReminder, None when absent
PriorityOptions == Priorities \cup {None}

----------------------------------------------------------------------------
\* Calendar arithmetic of Date (the run starts on 1 January, 00:00, of a
\* non-leap year, in a time zone without daylight saving)

MonthLengths == <<31, 28, 31, 30, 31, 30, 31, 31, 30, 31, 30, 31>>

RECURSIVE MonthLengthAt(_, _)
\* length in days of the month that holds day number d (0-based), from month m on
MonthLengthAt(d, m) ==
  IF m >= 12 THEN MonthLengths[12]
  ELSE IF d < MonthLengths[m] THEN MonthLengths[m]
  ELSE MonthLengthAt(d - MonthLengths[m], m + 1)

\* nextTime.setDate(nextTime.getDate() + 1 | 7), nextTime.setMonth(nextTime.getMonth() + 1):
\* a day of the month past the end of the next month rolls over, so that one
\* month later is the length of the current month later
AddIntervalDaily(t, pattern) == t + Day

AddInterval(t, pattern) ==
  CASE pattern = "daily" -> t + Day
    [] pattern = "weekly" -> t + 7 * Day
    [] pattern = "monthly" -> t + MonthLengthAt(t \div Day, 1) * Day
    [] OTHER -> t

----------------------------------------------------------------------------
\* The store

\* the record scheduleNotification builds (a taskDueDate of 0 is an absent one:
\* the code tests it for truth)
NewNotification(id, taskId, title, scheduledTime, createdAt, priority, category, taskDueDate, isRecurring, recurringPattern) ==
  [ id |-> id,
    taskId |-> taskId,
    title |-> title,
    scheduledTime |-> scheduledTime,
    isTriggered |-> FALSE,
    createdAt |-> createdAt,
    priority |-> IF priority = None THEN "normal" ELSE priority,
    category |-> IF category = None THEN "reminder" ELSE category,
    taskDueDate |-> taskDueDate,
    snoozeCount |-> 0,
    originalScheduledTime |-> scheduledTime,
    isRecurring |-> isRecurring,
    recurringPattern |-> recurringPattern ]

UsedIds(s) == {n.id : n \in s}

\* crypto.randomUUID(): any id not in use
FreshIds(s) == Ids \ UsedIds(s)

HasId(s, id) == id \in UsedIds(s)

Get(s, id) == CHOOSE n \in s : n.id = id

\* store.put(record): insert, or replace the record with the same key
Put(s, rec) == {n \in s : n.id # rec.id} \cup {rec}

RECURSIVE SortedById(_)
\* store.getAll(): the records in ascending key order
SortedById(s) ==
  IF s = {} THEN <<>>
  ELSE LET first == CHOOSE n \in s : \A m \in s : n.id <= m.id
       IN <<first>> \o SortedById(s \ {first})

getScheduledNotifications(s) == SortedById(s)

\* the result of Array.prototype.find as a list: the first match alone, or
\* nothing (undefined)
FirstOf(hits) == IF hits = <<>> THEN <<>> ELSE <<Head(hits)>>

\* notifications.find((n) => n.taskId === taskId && !n.isTriggered)
FindUntriggered(notifications, taskId) ==
  LET Match(n) == n.taskId = taskId /\ ~n.isTriggered
  IN FirstOf(SelectSeq(notifications, Match))

\* newNotifications.find((n) => n.taskId === taskId && n.scheduledTime === snoozeTime)
FindScheduledAt(notifications, taskId, snoozeTime) ==
  LET Match(n) == n.taskId = taskId /\ n.scheduledTime = snoozeTime
  IN FirstOf(SelectSeq(notifications, Match))

\* notifications.filter((n) => !n.isTriggered && n.scheduledTime <= now)
DueNotificationsLater(notifications, t) ==
  LET Due(n) == ~n.isTriggered /\ n.scheduledTime > t
  IN SelectSeq(notifications, Due)

DueNotifications(notifications, t) ==
  LET Due(n) == ~n.isTriggered /\ n.scheduledTime <= t
  IN SelectSeq(notifications, Due)

\* markNotificationTriggered on a store that holds the id: get, set, put in one transaction
MarkTriggeredKept(s, id) == Put(s, Get(s, id))

MarkTriggered(s, id) == Put(s, [Get(s, id) EXCEPT !.isTriggered = TRUE])

----------------------------------------------------------------------------
\* groupNotificationsByTimeAndPriority

PriorityOrderFlat(p) == 2

\* priorityOrder[a.priority || "normal"]
PriorityOrder(p) ==
  CASE p = "high" -> 3
    [] p = "normal" -> 2
    [] p = "low" -> 1
    [] OTHER -> 2

\* the comparator handed to sort: negative when a goes first
Compare(a, b) ==
  IF PriorityOrder(a.priority) # PriorityOrder(b.priority)
  THEN PriorityOrder(b.priority) - PriorityOrder(a.priority)
  ELSE a.scheduledTime - b.scheduledTime

RECURSIVE InsertSorted(_, _)
\* x goes behind every element it does not precede (the sort is stable)
InsertSorted(x, seq) ==
  IF seq = <<>> THEN <<x>>
  ELSE IF Compare(x, Head(seq)) < 0 THEN <<x>> \o seq
  ELSE <<Head(seq)>> \o InsertSorted(x, Tail(seq))

RECURSIVE SortNotifications(_)
SortNotifications(seq) ==
  IF seq = <<>> THEN <<>>
  ELSE InsertSorted(seq[Len(seq)], SortNotifications(SubSeq(seq, 1, Len(seq) - 1)))

\* whether the notification is appended to the running group
JoinsGroupLate(currentGroup, groupStartTime, n, timeWindow) ==
  Len(currentGroup) = 0 \/ n.scheduledTime - groupStartTime < timeWindow

JoinsGroup(currentGroup, groupStartTime, n, timeWindow) ==
  Len(currentGroup) = 0 \/ n.scheduledTime - groupStartTime <= timeWindow

RECURSIVE GroupLoop(_, _, _, _, _)
GroupLoop(sorted, groups, currentGroup, groupStartTime, timeWindow) ==
  IF sorted = <<>>
  THEN IF Len(currentGroup) > 0 THEN Append(groups, currentGroup) ELSE groups
  ELSE LET n == Head(sorted) IN
       IF JoinsGroup(currentGroup, groupStartTime, n, timeWindow)
       THEN GroupLoop(Tail(sorted), groups, Append(currentGroup, n),
                      IF Len(currentGroup) = 0 THEN n.scheduledTime ELSE groupStartTime,
                      timeWindow)
       ELSE GroupLoop(Tail(sorted), Append(groups, currentGroup), <<n>>,
                      n.scheduledTime, timeWindow)

groupNotificationsByTimeAndPriority(notifications, timeWindow) ==
  GroupLoop(SortNotifications(notifications), <<>>, <<>>, 0, timeWindow)

----------------------------------------------------------------------------
\* Processes and history

\* seen: the ids of the records the pass found due when it read the store
IdlePass == [pc |-> "idle", groups |-> <<>>, cur |-> <<>>, seen |-> {}]

IdleSnooze ==
  [pc |-> "idle", taskId |-> None, minutes |-> 0, snoozeCount |-> 0,
   snoozeTime |-> 0, newNotification |-> <<>>, call |-> 0, afterDelivery |-> FALSE]

IdleReminder ==
  [pc |-> "idle", taskId |-> None, reminderTime |-> 0, isRepeating |-> FALSE,
   repeatInterval |-> None, priority |-> None, taskDueDate |-> 0]

\* byUpdate: the call was made by updateTask; previous: the reminder time the
\* task had before that update
NoCall ==
  [taskId |-> None, reminderTime |-> 0, at |-> 0, isRepeating |-> FALSE, accepted |-> FALSE,
   byUpdate |-> FALSE, previous |-> 0]

\* via: the function that built the record; count: the snoozeCount computed for
\* it; call: the number of the snoozeNotification call for its task; first: the
\* scheduledTime of the first record of its recurrence chain; calledAt: the clock
\* when scheduleTaskReminder checked its time; interval: the task's repeat interval;
\* afterDelivery: the snooze call found every notification of its task delivered
NoMeta ==
  [via |-> None, count |-> 0, call |-> 0, first |-> 0, calledAt |-> 0, interval |-> None,
   afterDelivery |-> FALSE]

NoTwice == [stage |-> "none", shown |-> 0, found |-> 0]

\* the scheduler before any start: no interval timer, no listener; timers and
\* listeners carry the number of the start call that made them (the focus
\* listener of the grouping build is the function itself, listener 0)
IdleSched ==
  [starts |-> 0, intervals |-> {}, stored |-> 0, visibility |-> {}, focus |-> {},
   cleanup |-> 0, pendingVisibility |-> {}, pendingFocus |-> {},
   lastCall |-> None, passSince |-> FALSE,
   running |-> FALSE, lastEnd |-> None, failed |-> FALSE, invokedAfter |-> FALSE,
   burstPasses |-> 0]

\* what the last showNotification call did: the permission it got, the channel it
\* used ("none", "sw" for the service worker registration, "page" for an in-page
\* Notification) and whether the display call threw
NoShow == [permission |-> None, channel |-> "none", threw |-> FALSE]

\* permission: Notification.permission; last: the last showNotification call
GrantedUi == [permission |-> "granted", last |-> NoShow]

\* what a showNotification call meets besides the permission. api:
\* "Notification" in window; answer: what a permission prompt resolves to;
\* worker: a service worker registration exists; faulty: the display call throws
SoundBrowser == [api |-> TRUE, answer |-> "default", worker |-> TRUE, faulty |-> FALSE]

\* api: no call made yet. had: the store held the id when the call ran
NoApiCall == [op |-> "none", id |-> 0, had |-> FALSE, outcome |-> "none", error |-> None]

\* deleteTask: not called. todo: the ids of taskNotifications still to delete
IdleDelete == [pc |-> "idle", taskId |-> None, todo |-> <<>>]

\* the service worker with the page open and the database as initDB made it.
\* clients: the open pages; dbVersion, stores: the database "smart-reminder-db";
\* pending: the records in "pending-actions"; log: per action click, the message
\* and what became of it
DB_VERSION == 3

AppStores == {"tasks", "reminders", "resources-meta", "resources-blob", "scheduled-notifications"}

IdleWorker ==
  [clients |-> 1, dbVersion |-> DB_VERSION, stores |-> AppStores, pending |-> 0,
   log |-> <<>>]

AuxInit ==
  /\ sched = IdleSched
  /\ ui = GrantedUi
  /\ api = NoApiCall
  /\ del = IdleDelete
  /\ sw = IdleWorker

\* no asynchronous call is in flight
Quiet ==
  /\ \A p \in PassIds : pass[p].pc = "idle"
  /\ \A s \in SnoozeIds : snooze[s].pc = "idle"
  /\ \A r \in ReminderIds : reminder[r].pc = "idle"

Init ==
  /\ now = 0
  /\ ticks = 0
  /\ variant \in Variants
  /\ tasks = TaskIds
  /\ store = {}
  /\ pass = [p \in PassIds |-> IdlePass]
  /\ snooze = [s \in SnoozeIds |-> IdleSnooze]
  /\ reminder = [r \in ReminderIds |-> IdleReminder]
  /\ presented = [i \in Ids |-> 0]
  /\ meta = [i \in Ids |-> NoMeta]
  /\ callLog = [r \in ReminderIds |-> NoCall]
  /\ snoozeCalls = [t \in TaskIds |-> 0]
  /\ twice = NoTwice
  /\ gIn = <<>>
  /\ gWindow = 0
  /\ gOut = <<>>
  /\ gDone = FALSE
  /\ AuxInit

----------------------------------------------------------------------------
\* The clock

Tick ==
  /\ ticks < MaxTicks
  /\ \E d \in Deltas : now' = now + d
  /\ ticks' = ticks + 1
  /\ twice' = NoTwice
  /\ UNCHANGED <<variant, tasks, store, pass, snooze, reminder, presented, meta,
                 callLog, snoozeCalls, groupVars, auxVars>>

----------------------------------------------------------------------------
\* scheduleNotification, called directly with a time its caller has checked to
\* be in the future

ScheduleNotificationCall(taskId, scheduledTime, isRecurring, recurringPattern, id) ==
  /\ scheduledTime > now
  /\ id \in FreshIds(store)
  /\ store' = store \cup
       {NewNotification(id, taskId, "Task Reminder", scheduledTime, now, None, None,
                        0, isRecurring, recurringPattern)}
  /\ meta' = [meta EXCEPT ![id] = [NoMeta EXCEPT !.via = "api", !.first = scheduledTime]]
  /\ twice' = NoTwice
  /\ UNCHANGED <<now, ticks, variant, tasks, pass, snooze, reminder, presented,
                 callLog, snoozeCalls, groupVars, auxVars>>

\* scheduleNotification called with its options: a recurring notification with a
\* priority, a category and a due date
ScheduleRecurringCall(taskId, scheduledTime, recurringPattern, priority, category, taskDueDate, id) ==
  /\ scheduledTime > now
  /\ id \in FreshIds(store)
  /\ store' = store \cup
       {NewNotification(id, taskId, "Task Reminder", scheduledTime, now, priority, category,
                        taskDueDate, TRUE, recurringPattern)}
  /\ meta' = [meta EXCEPT ![id] = [NoMeta EXCEPT !.via = "api", !.first = scheduledTime]]
  /\ twice' = NoTwice
  /\ UNCHANGED <<now, ticks, variant, tasks, pass, snooze, reminder, presented,
                 callLog, snoozeCalls, groupVars, auxVars>>

----------------------------------------------------------------------------
\* checkAndTriggerNotifications

\* the batches a pass presents: the grouping variant groups the due records, the
\* debounced variant walks them one by one in store order
PassGroups(v, due) ==
  IF v = "grouping"
  THEN groupNotificationsByTimeAndPriority(due, 3 * 60)
  ELSE [i \in 1..Len(due) |-> <<due[i]>>]

\* if (notification.isRecurring && notification.recurringPattern)
NeedsRecurrence(n) == n.isRecurring /\ n.recurringPattern # None

\* the pass once it is done with the first record of its current group
AfterMember(pr) ==
  IF Tail(pr.cur) # <<>> THEN [pr EXCEPT !.pc = "mark", !.cur = Tail(pr.cur)]
  ELSE IF pr.groups # <<>> THEN [pr EXCEPT !.pc = "show", !.cur = <<>>]
  ELSE IdlePass

\* the back-to-back history after a step of a pass that ends in state pr
TwiceAfterStep(pr, shownNow) ==
  IF twice.stage # "first" THEN NoTwice
  ELSE [stage |-> IF pr.pc = "idle" THEN "between" ELSE "first",
        shown |-> twice.shown + shownNow,
        found |-> 0]

\* a pass starts (interval tick, visibility change, focus or the initial check):
\* it reads the store and the clock and keeps what is due and untriggered
PassRead(p) ==
  /\ pass[p].pc = "idle"
  /\ LET due == DueNotifications(getScheduledNotifications(store), now)
     IN /\ pass' = [pass EXCEPT ![p] =
                      IF due = <<>> THEN IdlePass
                      ELSE [pc |-> "show", groups |-> PassGroups(variant, due), cur |-> <<>>,
                            seen |-> {due[i].id : i \in 1..Len(due)}]]
        /\ twice' = IF ~Quiet THEN NoTwice
                    ELSE IF twice.stage = "between"
                         THEN [twice EXCEPT !.stage = "second", !.found = Len(due)]
                    ELSE [stage |-> IF due = <<>> THEN "between" ELSE "first",
                          shown |-> 0, found |-> 0]
  /\ UNCHANGED <<now, ticks, variant, tasks, store, snooze, reminder, presented, meta,
                 callLog, snoozeCalls, groupVars, auxVars>>

\* requestNotificationPermission: what it returns with Notification.permission
\* at permission in the browser e
RequestPermission(permission, e) ==
  IF ~e.api THEN "denied"
  ELSE IF permission = "granted" THEN "granted"
  ELSE IF permission = "denied" THEN "denied"
  ELSE e.answer

\* Notification.permission after the call: a prompt's answer is kept
PermissionAfter(permission, e) ==
  IF e.api /\ permission = "default" THEN e.answer ELSE permission

MayDisplayUnlessDenied(permission) == permission # "denied"

\* if (permission !== "granted") return
MayDisplay(permission) == permission = "granted"

\* the channel showNotification uses: the service worker registration when
\* there is one, else an in-page Notification
ShowChannel(e, permission) ==
  IF ~MayDisplay(permission) THEN "none"
  ELSE IF e.worker THEN "sw"
  ELSE "page"

\* the browser after one showNotification call; an error of the display call is
\* caught and logged
AfterShow(u, e) ==
  LET permission == RequestPermission(u.permission, e)
      channel == ShowChannel(e, permission)
  IN [permission |-> PermissionAfter(u.permission, e),
      last |-> [permission |-> permission, channel |-> channel,
                threw |-> channel # "none" /\ e.faulty]]

\* showNotification for the next group, single or batched, in the browser e
PassShowIn(p, e) ==
  /\ pass[p].pc = "show"
  /\ LET group == Head(pass[p].groups)
         shownIds == {group[i].id : i \in 1..Len(group)}
         pr == [pass[p] EXCEPT !.pc = "mark", !.groups = Tail(pass[p].groups),
                               !.cur = group]
     IN /\ presented' = [i \in Ids |->
                           IF i \in shownIds /\ presented[i] < 2 THEN presented[i] + 1
                           ELSE presented[i]]
        /\ pass' = [pass EXCEPT ![p] = pr]
        /\ twice' = TwiceAfterStep(pr, Len(group))
        /\ ui' = AfterShow(ui, e)
  /\ UNCHANGED <<now, ticks, variant, tasks, store, snooze, reminder, meta,
                 callLog, snoozeCalls, groupVars, sched, callerVars>>

\* showNotification in a browser with the API and a registration, nothing failing
PassShow(p) == PassShowIn(p, SoundBrowser)

\* markNotificationTriggered for the next record of the group; a missing record
\* rejects, which ends the pass
PassMark(p) ==
  /\ pass[p].pc = "mark"
  /\ LET n == Head(pass[p].cur)
         pr == IF ~HasId(store, n.id) THEN IdlePass
               ELSE IF NeedsRecurrence(n) THEN [pass[p] EXCEPT !.pc = "recur"]
               ELSE AfterMember(pass[p])
     IN /\ store' = IF HasId(store, n.id) THEN MarkTriggered(store, n.id) ELSE store
        /\ pass' = [pass EXCEPT ![p] = pr]
        /\ twice' = TwiceAfterStep(pr, 0)
  /\ UNCHANGED <<now, ticks, variant, tasks, snooze, reminder, presented, meta,
                 callLog, snoozeCalls, groupVars, auxVars>>

\* scheduleRecurringNotification for the record just marked
PassRecur(p, id) ==
  /\ pass[p].pc = "recur"
  /\ id \in FreshIds(store)
  /\ LET n == Head(pass[p].cur)
         anchor == IF n.originalScheduledTime # 0 THEN n.originalScheduledTime
                   ELSE n.scheduledTime
         nextTime == AddInterval(anchor, n.recurringPattern)
         pr == AfterMember(pass[p])
     IN /\ store' = store \cup
             {NewNotification(id, n.taskId, n.title, nextTime, now, n.priority,
                              n.category, n.taskDueDate, TRUE, n.recurringPattern)}
        /\ meta' = [meta EXCEPT ![id] =
                      [NoMeta EXCEPT !.via = "recurring", !.first = meta[n.id].first]]
        /\ pass' = [pass EXCEPT ![p] = pr]
        /\ twice' = TwiceAfterStep(pr, 0)
  /\ UNCHANGED <<now, ticks, variant, tasks, snooze, reminder, presented,
                 callLog, snoozeCalls, groupVars, auxVars>>

----------------------------------------------------------------------------
\* snoozeNotification

NextSnoozeCountTwice(existing) ==
  (IF existing = <<>> THEN 0 ELSE existing[1].snoozeCount) + 2

\* const snoozeCount = (existingNotification?.snoozeCount || 0) + 1
NextSnoozeCount(existing) ==
  (IF existing = <<>> THEN 0 ELSE existing[1].snoozeCount) + 1

SnoozeTitle(snoozeCount) ==
  IF snoozeCount > 1 THEN "Snoozed Task (" \o ToString(snoozeCount) \o "x)"
  ELSE "Snoozed Task Reminder"

\* priority: snoozeCount > 2 ? "high" : "normal"
SnoozePriority(snoozeCount) == IF snoozeCount > 2 THEN "high" ELSE "normal"

\* the call, up to the look-up of the task: a missing task ends it
SnoozeCall(s, taskId, minutes) ==
  /\ snooze[s].pc = "idle"
  /\ Cardinality(store) < MaxRecords
  /\ snoozeCalls' = [snoozeCalls EXCEPT ![taskId] = @ + 1]
  /\ snooze' = [snooze EXCEPT ![s] =
                  IF taskId \in tasks
                  THEN [IdleSnooze EXCEPT !.pc = "read", !.taskId = taskId,
                                          !.minutes = minutes,
                                          !.call = snoozeCalls[taskId] + 1]
                  ELSE IdleSnooze]
  /\ twice' = NoTwice
  /\ UNCHANGED <<now, ticks, variant, tasks, store, pass, reminder, presented, meta,
                 callLog, groupVars, auxVars>>

\* reads the store for the task's untriggered notification, then the clock
SnoozeRead(s) ==
  /\ snooze[s].pc = "read"
  /\ LET existing == FindUntriggered(getScheduledNotifications(store), snooze[s].taskId)
     IN snooze' = [snooze EXCEPT ![s].pc = "create",
                                 ![s].snoozeCount = NextSnoozeCount(existing),
                                 ![s].afterDelivery = (existing = <<>>),
                                 ![s].snoozeTime = now + snooze[s].minutes * 60]
  /\ twice' = NoTwice
  /\ UNCHANGED <<now, ticks, variant, tasks, store, pass, reminder, presented, meta,
                 callLog, snoozeCalls, groupVars, auxVars>>

\* scheduleNotification for the snoozed reminder
SnoozeCreate(s, id) ==
  /\ snooze[s].pc = "create"
  /\ id \in FreshIds(store)
  /\ store' = store \cup
       {NewNotification(id, snooze[s].taskId, SnoozeTitle(snooze[s].snoozeCount),
                        snooze[s].snoozeTime, now, SnoozePriority(snooze[s].snoozeCount),
                        "reminder", 0, FALSE, None)}
  /\ meta' = [meta EXCEPT ![id] =
                [NoMeta EXCEPT !.via = "snooze", !.count = snooze[s].snoozeCount,
                               !.call = snooze[s].call, !.first = snooze[s].snoozeTime,
                               !.afterDelivery = snooze[s].afterDelivery]]
  /\ snooze' = [snooze EXCEPT ![s].pc = "reread"]
  /\ twice' = NoTwice
  /\ UNCHANGED <<now, ticks, variant, tasks, pass, reminder, presented,
                 callLog, snoozeCalls, groupVars, auxVars>>

\* reads the store again and sets snoozeCount on its copy of the record found
SnoozeReread(s) ==
  /\ snooze[s].pc = "reread"
  /\ LET found == FindScheduledAt(getScheduledNotifications(store), snooze[s].taskId,
                                  snooze[s].snoozeTime)
     IN snooze' = [snooze EXCEPT ![s] =
                     IF found = <<>> THEN IdleSnooze
                     ELSE [snooze[s] EXCEPT
                             !.pc = "put",
                             !.newNotification =
                               <<[found[1] EXCEPT !.snoozeCount = snooze[s].snoozeCount]>>]]
  /\ twice' = NoTwice
  /\ UNCHANGED <<now, ticks, variant, tasks, store, pass, reminder, presented, meta,
                 callLog, snoozeCalls, groupVars, auxVars>>

\* store.put(newNotification): writes the whole copy back
SnoozePut(s) ==
  /\ snooze[s].pc = "put"
  /\ store' = Put(store, snooze[s].newNotification[1])
  /\ snooze' = [snooze EXCEPT ![s] = IdleSnooze]
  /\ twice' = NoTwice
  /\ UNCHANGED <<now, ticks, variant, tasks, pass, reminder, presented, meta,
                 callLog, snoozeCalls, groupVars, auxVars>>

----------------------------------------------------------------------------
\* scheduleTaskReminder, as addTask and updateTask call it (no options)

RejectsPastStrict(reminderDate, t) == reminderDate < t

\* if (reminderDate <= now) return
RejectsPast(reminderDate, t) == reminderDate <= t

ReminderCategoryLate(dueDate, reminderDate) ==
  IF dueDate = 0 THEN "reminder"
  ELSE IF dueDate - reminderDate < 0 THEN "overdue"
  ELSE IF dueDate - reminderDate <= 60 * 60 THEN "deadline"
  ELSE "reminder"

\* the category from the gap between due date and reminder time
ReminderCategory(dueDate, reminderDate) ==
  IF dueDate = 0 THEN "reminder"
  ELSE IF dueDate - reminderDate <= 0 THEN "overdue"
  ELSE IF dueDate - reminderDate <= 60 * 60 THEN "deadline"
  ELSE "reminder"

ReminderTitle(category) ==
  CASE category = "overdue" -> "Overdue Task!"
    [] category = "deadline" -> "Task Deadline Approaching"
    [] OTHER -> "Task Reminder"

\* priority: options?.priority || (category === "overdue" ? "high" : "normal")
ReminderPriority(priority, category) ==
  IF priority # None THEN priority
  ELSE IF category = "overdue" THEN "high" ELSE "normal"

\* the call, up to its check of the reminder time against the clock; priority
\* and taskDueDate are the options of the call (None and 0 when absent)
ReminderEnterWith(r, taskId, reminderTime, isRepeating, repeatInterval, priority, taskDueDate) ==
  LET accepted == ~RejectsPast(reminderTime, now) IN
  /\ callLog' = [callLog EXCEPT ![r] =
                   [taskId |-> taskId, reminderTime |-> reminderTime, at |-> now,
                    isRepeating |-> isRepeating, accepted |-> accepted,
                    byUpdate |-> FALSE, previous |-> 0]]
  /\ reminder' = [reminder EXCEPT ![r] =
                    IF accepted
                    THEN [pc |-> "create", taskId |-> taskId, reminderTime |-> reminderTime,
                          isRepeating |-> isRepeating, repeatInterval |-> repeatInterval,
                          priority |-> priority, taskDueDate |-> taskDueDate]
                    ELSE IdleReminder]

\* the call without options
ReminderEnter(r, taskId, reminderTime, isRepeating, repeatInterval) ==
  ReminderEnterWith(r, taskId, reminderTime, isRepeating, repeatInterval, None, 0)

ReminderCall(r, taskId, reminderTime, isRepeating, repeatInterval) ==
  /\ reminder[r].pc = "idle"
  /\ Cardinality(store) < MaxRecords
  /\ ReminderEnter(r, taskId, reminderTime, isRepeating, repeatInterval)
  /\ twice' = NoTwice
  /\ UNCHANGED <<now, ticks, variant, tasks, store, pass, snooze, presented, meta,
                 snoozeCalls, groupVars, auxVars>>

\* scheduleTaskReminder called with options, for a task that does not repeat
ReminderCallOptions(r, taskId, reminderTime, priority, taskDueDate) ==
  /\ reminder[r].pc = "idle"
  /\ Cardinality(store) < MaxRecords
  /\ ReminderEnterWith(r, taskId, reminderTime, FALSE, None, priority, taskDueDate)
  /\ twice' = NoTwice
  /\ UNCHANGED <<now, ticks, variant, tasks, store, pass, snooze, presented, meta,
                 snoozeCalls, groupVars, auxVars>>

\* scheduleNotification for the reminder; a repeating task goes on to call
\* scheduleTaskReminder for its next occurrence
ReminderCreate(r, id) ==
  /\ reminder[r].pc = "create"
  /\ id \in FreshIds(store)
  /\ LET rm == reminder[r]
         category == ReminderCategory(rm.taskDueDate, rm.reminderTime)
         repeats == rm.isRepeating /\ rm.repeatInterval # None
     IN /\ store' = store \cup
             {NewNotification(id, rm.taskId, ReminderTitle(category), rm.reminderTime, now,
                              ReminderPriority(rm.priority, category), category, rm.taskDueDate,
                              FALSE, None)}
        /\ meta' = [meta EXCEPT ![id] =
                      [NoMeta EXCEPT !.via = "reminder", !.first = rm.reminderTime,
                                     !.calledAt = callLog[r].at,
                                     !.interval = IF repeats THEN rm.repeatInterval ELSE None]]
        /\ reminder' = [reminder EXCEPT ![r] =
                          IF repeats
                          THEN [rm EXCEPT !.pc = "recurse",
                                          !.reminderTime = AddInterval(rm.reminderTime,
                                                                       rm.repeatInterval)]
                          ELSE IdleReminder]
  /\ twice' = NoTwice
  /\ UNCHANGED <<now, ticks, variant, tasks, pass, snooze, presented,
                 callLog, snoozeCalls, groupVars, auxVars>>

\* the recursive call for the next occurrence, with the options of the call
ReminderRecurse(r) ==
  /\ reminder[r].pc = "recurse"
  /\ ReminderEnterWith(r, reminder[r].taskId, reminder[r].reminderTime,
                       reminder[r].isRepeating, reminder[r].repeatInterval,
                       reminder[r].priority, reminder[r].taskDueDate)
  /\ twice' = NoTwice
  /\ UNCHANGED <<now, ticks, variant, tasks, store, pass, snooze, presented, meta,
                 snoozeCalls, groupVars, auxVars>>

\* reminder times given to addTask and updateTask, as offsets from the clock
UpdateOffsets == {10 * 60, 20 * 60}

\* updateTask(id, {reminderTime}) for a task that does not repeat: the task is
\* read and put back with the new time, and scheduleTaskReminder is called when
\* the time differs from the one the task had, which is the time of the last
\* call for the task. Nothing is done to the notifications the task has
UpdateTask(r, taskId, reminderTime) ==
  /\ reminder[r].pc = "idle"
  /\ taskId \in tasks
  /\ callLog[r].taskId = taskId
  /\ ~callLog[r].isRepeating
  /\ reminderTime # callLog[r].reminderTime
  /\ Cardinality(store) < MaxRecords
  /\ LET accepted == ~RejectsPast(reminderTime, now) IN
       /\ callLog' = [callLog EXCEPT ![r] =
                        [taskId |-> taskId, reminderTime |-> reminderTime, at |-> now,
                         isRepeating |-> FALSE, accepted |-> accepted,
                         byUpdate |-> TRUE, previous |-> callLog[r].reminderTime]]
       /\ reminder' = [reminder EXCEPT ![r] =
                         IF accepted
                         THEN [pc |-> "create", taskId |-> taskId, reminderTime |-> reminderTime,
                               isRepeating |-> FALSE, repeatInterval |-> None,
                               priority |-> None, taskDueDate |-> 0]
                         ELSE IdleReminder]
  /\ twice' = NoTwice
  /\ UNCHANGED <<now, ticks, variant, tasks, store, pass, snooze, presented, meta,
                 snoozeCalls, groupVars, auxVars>>

----------------------------------------------------------------------------
\* startNotificationScheduler and stopNotificationScheduler, and the timers and
\* events that call checkAndTriggerNotifications

\* checkAndTriggerNotifications is called by the scheduler. running: a call of
\* the scheduler has not settled; invokedAfter: the call came after a call that
\* ended on a storage failure
Invoked(sc) == [sc EXCEPT !.running = TRUE, !.invokedAfter = sc.failed]

\* an event of a burst arrives: a burst begins when no debounced check is
\* pending, and an event that finds one pending follows the event that set it
\* within the delay. burstPasses: the passes the debounced checks of the
\* burst have started, counted up to 2
InBurst(sc) ==
  IF sc.pendingVisibility = {} /\ sc.pendingFocus = {} THEN [sc EXCEPT !.burstPasses = 0]
  ELSE sc

\* a debounced check of the burst calls checkAndTriggerNotifications
BurstPass(sc) == [sc EXCEPT !.burstPasses = IF @ < 2 THEN @ + 1 ELSE @]

\* the grouping build sets a new interval and listeners on every start; the
\* debounced build first clears the interval it holds and registers a cleanup
\* for the listeners and timeouts of this start
StartScheduler ==
  /\ sched.starts < MaxStarts
  /\ LET g == sched.starts + 1 IN
     sched' =
       IF variant = "grouping"
       THEN [sched EXCEPT !.starts = g,
                          !.intervals = @ \cup {g},
                          !.stored = g,
                          !.visibility = @ \cup {g},
                          !.focus = @ \cup {0},
                          !.lastCall = "start",
                          !.passSince = FALSE]
       ELSE Invoked([sched EXCEPT !.starts = g,
                                  !.intervals = (@ \ {sched.stored}) \cup {g},
                                  !.stored = g,
                                  !.visibility = @ \cup {g},
                                  !.focus = @ \cup {g},
                                  !.cleanup = g,
                                  !.lastCall = "start",
                                  !.passSince = FALSE])
  /\ UNCHANGED <<coreVars, groupVars, ui, callerVars>>

\* clears the interval it holds; the debounced build also runs the registered
\* cleanup, which detaches the listeners and clears the timeouts of one start
StopScheduler ==
  /\ sched.starts > 0
  /\ sched' =
       IF variant = "grouping"
       THEN [sched EXCEPT !.intervals = @ \ {sched.stored},
                          !.stored = 0,
                          !.lastCall = "stop",
                          !.passSince = FALSE]
       ELSE [sched EXCEPT !.intervals = @ \ {sched.stored},
                          !.stored = 0,
                          !.visibility = @ \ {sched.cleanup},
                          !.focus = @ \ {sched.cleanup},
                          !.pendingVisibility = @ \ {sched.cleanup},
                          !.pendingFocus = @ \ {sched.cleanup},
                          !.cleanup = 0,
                          !.lastCall = "stop",
                          !.passSince = FALSE]
  /\ UNCHANGED <<coreVars, groupVars, ui, callerVars>>

\* an interval timer fires and calls checkAndTriggerNotifications
IntervalTick(g) ==
  /\ g \in sched.intervals
  /\ sched' = Invoked([sched EXCEPT !.passSince = TRUE])
  /\ UNCHANGED <<coreVars, groupVars, ui, callerVars>>

\* the page becomes visible: every attached listener runs; the grouping build
\* calls checkAndTriggerNotifications, the debounced build sets its timeout anew
VisibilityChange ==
  /\ sched.visibility # {}
  /\ sched' = IF variant = "grouping"
              THEN Invoked([sched EXCEPT !.passSince = TRUE])
              ELSE [InBurst(sched) EXCEPT !.pendingVisibility = sched.visibility]
  /\ UNCHANGED <<coreVars, groupVars, ui, callerVars>>

\* the window gets the focus
FocusEvent ==
  /\ sched.focus # {}
  /\ sched' = IF variant = "grouping"
              THEN Invoked([sched EXCEPT !.passSince = TRUE])
              ELSE [InBurst(sched) EXCEPT !.pendingFocus = sched.focus]
  /\ UNCHANGED <<coreVars, groupVars, ui, callerVars>>

\* a debounced check comes due and calls checkAndTriggerNotifications
VisibilityTimeout(g) ==
  /\ g \in sched.pendingVisibility
  /\ sched' = BurstPass(Invoked([sched EXCEPT !.pendingVisibility = @ \ {g}, !.passSince = TRUE]))
  /\ UNCHANGED <<coreVars, groupVars, ui, callerVars>>

FocusTimeout(g) ==
  /\ g \in sched.pendingFocus
  /\ sched' = BurstPass(Invoked([sched EXCEPT !.pendingFocus = @ \ {g}, !.passSince = TRUE]))
  /\ UNCHANGED <<coreVars, groupVars, ui, callerVars>>

\* a call of the scheduler settles without a storage failure
EvaluatorResolves ==
  /\ sched.running
  /\ sched' = [sched EXCEPT !.running = FALSE, !.lastEnd = "resolved"]
  /\ UNCHANGED <<coreVars, groupVars, ui, callerVars>>

TimersAfterRejectionNone(sc) == {}

\* the interval timers after a call ended on a storage failure: neither the
\* catch block nor a rejected promise clears a timer
TimersAfterRejection(sc) == sc.intervals

\* how the failure ends: the grouping build catches and logs it, the debounced
\* build has no try and its promise rejects with nobody awaiting it
RejectionEnd(v) == IF v = "grouping" THEN "logged" ELSE "unhandled"

\* the store rejects (open, getAll, get or put) during a call of the scheduler
EvaluatorRejects ==
  /\ sched.running
  /\ sched' = [sched EXCEPT !.running = FALSE,
                            !.lastEnd = RejectionEnd(variant),
                            !.failed = TRUE,
                            !.intervals = TimersAfterRejection(sched)]
  /\ UNCHANGED <<coreVars, groupVars, ui, callerVars>>

----------------------------------------------------------------------------
\* The browser around showNotification

\* the browsers that differ for showNotification
Browsers ==
  {e \in [api : BOOLEAN, answer : {"default", "granted", "denied"}, worker : BOOLEAN,
          faulty : BOOLEAN] : ~e.api => e.answer = "default"}

\* the user changes the permission in the browser's settings
ChangePermission(permission) ==
  /\ \A p \in PassIds : pass[p].pc = "idle"
  /\ permission # ui.permission
  /\ ui' = [ui EXCEPT !.permission = permission]
  /\ UNCHANGED <<coreVars, groupVars, sched, callerVars>>

----------------------------------------------------------------------------
\* markNotificationTriggered and deleteScheduledNotification called on their own

MarkOutcomeLenient(s, id) == "resolved"

\* markNotificationTriggered: resolve() after the put, reject(new Error(...))
\* when store.get(id) finds nothing
MarkOutcome(s, id) == IF HasId(s, id) THEN "resolved" ELSE "rejected"

\* the store after markNotificationTriggered: the get and the put share one
\* transaction; nothing is put when the get finds nothing
AfterMark(s, id) == IF HasId(s, id) THEN MarkTriggered(s, id) ELSE s

MarkCall(id) ==
  /\ store' = AfterMark(store, id)
  /\ api' = [op |-> "mark", id |-> id, had |-> HasId(store, id),
             outcome |-> MarkOutcome(store, id),
             error |-> IF HasId(store, id) THEN None ELSE "Notification not found"]
  /\ UNCHANGED <<now, ticks, variant, tasks, pass, snooze, reminder, presented, meta,
                 callLog, snoozeCalls, twice, groupVars, sched, ui, del, sw>>

\* store.delete(id): the request succeeds whether or not the key is there
DeleteRecord(s, id) == {n \in s : n.id # id}

\* request.onsuccess = () => resolve()
DeleteOutcome(s, id) == "resolved"

DeleteCall(id) ==
  /\ store' = DeleteRecord(store, id)
  /\ api' = [op |-> "delete", id |-> id, had |-> HasId(store, id),
             outcome |-> DeleteOutcome(store, id), error |-> None]
  /\ UNCHANGED <<now, ticks, variant, tasks, pass, snooze, reminder, presented, meta,
                 callLog, snoozeCalls, twice, groupVars, sched, ui, del, sw>>

----------------------------------------------------------------------------
\* deleteTask (src/lib/db.ts): the task, then the notifications of the task

\* notifications.filter((n) => n.taskId === id), as their ids
TaskNotificationIds(notifications, taskId) ==
  LET OfTask(n) == n.taskId = taskId
      taskNotifications == SelectSeq(notifications, OfTask)
  IN [i \in 1..Len(taskNotifications) |-> taskNotifications[i].id]

\* store.delete(id) on the tasks store; its onsuccess starts the cleanup
DeleteTaskCall(taskId) ==
  /\ del.pc = "idle"
  /\ tasks' = tasks \ {taskId}
  /\ del' = [pc |-> "read", taskId |-> taskId, todo |-> <<>>]
  /\ UNCHANGED <<now, ticks, variant, store, pass, snooze, reminder, presented, meta,
                 callLog, snoozeCalls, twice, groupVars, sched, ui, api, sw>>

\* getScheduledNotifications() and the filter on the task
DeleteTaskRead ==
  /\ del.pc = "read"
  /\ del' = [del EXCEPT !.pc = "delete",
                        !.todo = TaskNotificationIds(getScheduledNotifications(store), del.taskId)]
  /\ UNCHANGED <<coreVars, groupVars, sched, ui, api, sw>>

\* one turn of the loop: await deleteScheduledNotification(notification.id)
DeleteTaskStep ==
  /\ del.pc = "delete"
  /\ del.todo # <<>>
  /\ store' = DeleteRecord(store, Head(del.todo))
  /\ del' = [del EXCEPT !.todo = Tail(del.todo)]
  /\ UNCHANGED <<now, ticks, variant, tasks, pass, snooze, reminder, presented, meta,
                 callLog, snoozeCalls, twice, groupVars, sched, ui, api, sw>>

\* the loop is over: resolve()
DeleteTaskResolve ==
  /\ del.pc = "delete"
  /\ del.todo = <<>>
  /\ del' = [del EXCEPT !.pc = "resolved"]
  /\ UNCHANGED <<coreVars, groupVars, sched, ui, api, sw>>

----------------------------------------------------------------------------
\* The service worker (src/public/sw.js): clicks on notification actions

\* the action buttons that reach handleTaskAction
ClickActions == {"complete", "snooze-10", "snooze-60"}

\* the message handleTaskAction builds for a click
ClickMessage(action) ==
  [type |-> "NOTIFICATION_ACTION",
   action |-> IF action = "complete" THEN "complete" ELSE "snooze",
   minutes |-> IF action = "snooze-10" THEN 10 ELSE IF action = "snooze-60" THEN 60 ELSE 0]

\* indexedDB.open(name, version) on a database at version current: a lower
\* version than the stored one is a VersionError; a higher one upgrades
OpenFails(current, version) == current > version

\* the stores after initDB's open: onupgradeneeded creates the app's stores
StoresAfterInit(w) == IF w.dbVersion < DB_VERSION THEN w.stores \cup AppStores ELSE w.stores

\* a page of the app opens and calls initDB
OpenPage ==
  /\ sw.clients < MaxPages
  /\ sw' = [sw EXCEPT !.clients = @ + 1,
                      !.stores = StoresAfterInit(sw),
                      !.dbVersion = IF @ < DB_VERSION THEN DB_VERSION ELSE @]
  /\ UNCHANGED <<coreVars, groupVars, sched, ui, api, del>>

ClosePage ==
  /\ sw.clients > 0
  /\ sw' = [sw EXCEPT !.clients = @ - 1]
  /\ UNCHANGED <<coreVars, groupVars, sched, ui, api, del>>

\* the browser clears the origin's storage while no page is open
ClearStorage ==
  /\ sw.clients = 0
  /\ sw.dbVersion # 0
  /\ sw' = [sw EXCEPT !.dbVersion = 0, !.stores = {}, !.pending = 0]
  /\ UNCHANGED <<coreVars, groupVars, sched, ui, api, del>>

\* notificationclick with an action of ClickActions and a taskId:
\* handleTaskAction posts the message to every window client and, with no
\* client, calls storePendingAction, which opens the database at version 2
ActionClick(action) ==
  /\ Len(sw.log) < MaxClicks
  /\ sw' = [sw EXCEPT !.log = Append(@,
               [message |-> ClickMessage(action),
                pages |-> sw.clients,
                outcome |-> IF sw.clients > 0 THEN "posted" ELSE "opening"])]
  /\ UNCHANGED <<coreVars, groupVars, sched, ui, api, del>>

\* the action buttons showNotification puts on an alert when the caller gives none
OfferedActions == {"complete", "snooze-10", "snooze-60", "view"}

\* whether the data of the alert the evaluator shows for a group has a taskId:
\* a single alert carries taskId and notificationId, a grouped one taskIds and
\* notificationIds
AlertHasTaskId(groupSize) == groupSize = 1

\* the branch of the notificationclick handler a click takes: "task" is
\* handleTaskAction, "view" and "open" are focusOrOpenApp alone
ClickRoute(hasTaskId, action) ==
  IF action \in ClickActions /\ hasTaskId THEN "task"
  ELSE IF action = "view" /\ hasTaskId THEN "view"
  ELSE IF action = "dismiss" THEN "dismiss"
  ELSE "open"

\* a click on a button of the alert shown for a group of groupSize records. The
\* page focusOrOpenApp opens when none is open is a later OpenPage
NotificationClick(groupSize, action) ==
  /\ Len(sw.log) < MaxClicks
  /\ LET route == ClickRoute(AlertHasTaskId(groupSize), action)
     IN sw' = [sw EXCEPT !.log = Append(@,
                 [message |-> IF route = "task" THEN ClickMessage(action)
                              ELSE [type |-> "none", action |-> action, minutes |-> 0],
                  pages |-> sw.clients,
                  outcome |-> IF route # "task" THEN route
                              ELSE IF sw.clients > 0 THEN "posted" ELSE "opening"])]
  /\ UNCHANGED <<coreVars, groupVars, sched, ui, api, del>>

\* what the open request of storePendingAction comes to. A VersionError has no
\* handler; without an upgrade handler a new database has no stores, and
\* db.transaction(["pending-actions"]) throws in the success handler
StoreOutcome(w) ==
  IF OpenFails(w.dbVersion, 2) THEN "dropped"
  ELSE IF "pending-actions" \in w.stores THEN "stored"
  ELSE "dropped"

\* the open request of click i settles
OpenSettled(i) ==
  /\ i \in DOMAIN sw.log
  /\ sw.log[i].outcome = "opening"
  /\ sw' = [sw EXCEPT !.log[i].outcome = StoreOutcome(sw),
                      !.dbVersion = IF OpenFails(@, 2) THEN @ ELSE 2,
                      !.pending = IF StoreOutcome(sw) = "stored" THEN @ + 1 ELSE @]
  /\ UNCHANGED <<coreVars, groupVars, sched, ui, api, del>>

----------------------------------------------------------------------------
\* The system

EnvironmentSteps == \E permission \in {"default", "granted", "denied"} : ChangePermission(permission)

\* a pass, without its recurrence step, in any browser
PassAnywhere(ps) ==
  \E p \in ps : PassRead(p) \/ PassMark(p) \/ \E e \in Browsers : PassShowIn(p, e)

SchedulerSteps ==
  \/ StartScheduler
  \/ StopScheduler
  \/ \E g \in 1..MaxStarts : IntervalTick(g) \/ VisibilityTimeout(g) \/ FocusTimeout(g)
  \/ VisibilityChange
  \/ FocusEvent

ClockSteps == Tick

ScheduleSteps ==
  \E t \in TaskIds, off \in ScheduleOffsets, id \in Ids :
    \/ ScheduleNotificationCall(t, now + off, FALSE, None, id)
    \/ \E pattern \in CallPatterns : ScheduleNotificationCall(t, now + off, TRUE, pattern, id)

\* a pass without its recurrence step, for stores that hold no recurring record
PassCore(ps) == \E p \in ps : PassRead(p) \/ PassShow(p) \/ PassMark(p)

PassSteps(ps) == PassCore(ps) \/ \E p \in ps, id \in Ids : PassRecur(p, id)

\* the snoozeNotification calls of the slots ss
SnoozeSlots(ss) ==
  \/ \E s \in ss, t \in TaskIds, m \in SnoozeMinutes : SnoozeCall(s, t, m)
  \/ \E s \in ss : SnoozeRead(s) \/ SnoozeReread(s) \/ SnoozePut(s)
  \/ \E s \in ss, id \in Ids : SnoozeCreate(s, id)

\* one snoozeNotification call at a time
SnoozeSteps == SnoozeSlots({"s1"})

ReminderSteps ==
  \/ \E r \in ReminderIds, t \in TaskIds, off \in ReminderOffsets :
       \/ ReminderCall(r, t, now + off, FALSE, None)
       \/ \E interval \in CallPatterns : ReminderCall(r, t, now + off, TRUE, interval)
  \/ \E r \in ReminderIds, id \in Ids : ReminderCreate(r, id)
  \/ \E r \in ReminderIds : ReminderRecurse(r)

\* scheduleTaskReminder called with and without a due date and a priority
ReminderOptionSteps ==
  \/ \E r \in ReminderIds, t \in TaskIds, off \in ReminderOffsets, pr \in PriorityOptions :
       \/ ReminderCallOptions(r, t, now + off, pr, 0)
       \/ \E due \in DueOffsets : ReminderCallOptions(r, t, now + off, pr, now + off + due)
  \/ \E r \in ReminderIds, id \in Ids : ReminderCreate(r, id)

\* the whole subsystem
Next == ClockSteps \/ ScheduleSteps \/ PassSteps(PassIds) \/ SnoozeSteps \/ ReminderSteps

Spec == Init /\ [][Next]_vars

\* the evaluator alone: records scheduled directly, the clock and two passes
NextEvaluator == ClockSteps \/ ScheduleSteps \/ PassSteps(PassIds)

SpecEvaluator == Init /\ [][NextEvaluator]_vars

\* snoozing: snooze calls, the clock and the evaluation passes the timer starts
NextSnooze == ClockSteps \/ SnoozeSteps \/ PassCore({"timer"})

SpecSnooze == Init /\ [][NextSnooze]_vars

\* snoozeNotification calls that overlap: two requests in flight at once
NextSnoozeRace == SnoozeSlots(SnoozeIds)

SpecSnoozeRace == Init /\ [][NextSnoozeRace]_vars

\* the options of scheduleTaskReminder
NextReminderOptions == ReminderOptionSteps

SpecReminderOptions == Init /\ [][NextReminderOptions]_vars

\* the scheduler: start and stop calls, timers and page events
NextScheduler == SchedulerSteps

SpecScheduler == Init /\ [][NextScheduler]_vars

\* presentation: records scheduled directly, the clock, the passes the timer
\* starts and a browser whose permission and display channels change
NextPresentation ==
  \/ ClockSteps
  \/ \E t \in TaskIds, off \in ScheduleOffsets, id \in Ids :
       Cardinality(store) < MaxShown /\ ScheduleNotificationCall(t, now + off, FALSE, None, id)
  \/ PassAnywhere({"timer"})
  \/ EnvironmentSteps

SpecPresentation == Init /\ [][NextPresentation]_vars

StoreCallSteps == \E id \in Ids : MarkCall(id) \/ DeleteCall(id)

\* the store's operations called directly, on ids the store holds or not
NextStoreCalls == ScheduleSteps \/ StoreCallSteps

SpecStoreCalls == Init /\ [][NextStoreCalls]_vars

DeleteTaskSteps ==
  \/ \E t \in TaskIds : DeleteTaskCall(t)
  \/ DeleteTaskRead
  \/ DeleteTaskStep
  \/ DeleteTaskResolve

\* a task is deleted while its notifications are scheduled and snoozed; once
\* deleteTask is called, the snooze in flight runs to its end and no new call
\* starts
NextCascade ==
  \/ del.pc = "idle" /\ ScheduleSteps
  \/ (del.pc = "idle" \/ snooze["s1"].pc # "idle") /\ SnoozeSteps
  \/ DeleteTaskSteps

SpecCascade == Init /\ [][NextCascade]_vars

WorkerSteps ==
  \/ OpenPage
  \/ ClosePage
  \/ ClearStorage
  \/ \E action \in ClickActions : ActionClick(action)
  \/ \E i \in 1..MaxClicks : OpenSettled(i)

\* the service worker: pages open and close, actions are clicked
NextWorker == WorkerSteps

SpecWorker == Init /\ [][NextWorker]_vars

\* the buttons of the alerts the evaluator shows, clicked with pages open or not
NextAlertClicks ==
  \/ OpenPage
  \/ ClosePage
  \/ \E groupSize \in 1..MaxRecords, action \in OfferedActions : NotificationClick(groupSize, action)
  \/ \E i \in 1..MaxClicks : OpenSettled(i)

SpecAlertClicks == Init /\ [][NextAlertClicks]_vars

\* the scheduler over a store that can reject
NextFaultyStore == SchedulerSteps \/ EvaluatorResolves \/ EvaluatorRejects

SpecFaultyStore == Init /\ [][NextFaultyStore]_vars

\* recurring notifications of every pattern, the clock and the passes the
\* timer starts; one notification is scheduled by hand, the others follow it
NextRecurrence ==
  \/ ClockSteps
  \/ \E t \in TaskIds, off \in ScheduleOffsets, id \in Ids, pattern \in Patterns,
        priority \in {"low", "high"}, category \in {"reminder", "overdue"},
        due \in {0, 60 * 60} :
       /\ store = {}
       /\ ScheduleRecurringCall(t, now + off, pattern, priority, category,
                                IF due = 0 THEN 0 ELSE now + off + due, id)
  \/ PassSteps({"timer"})

SpecRecurrence == Init /\ [][NextRecurrence]_vars

\* the steps that continue a scheduleTaskReminder call: the event loop runs the
\* continuation of every await that has settled
ReminderProgress ==
  \/ \E r \in ReminderIds, id \in Ids : ReminderCreate(r, id)
  \/ \E r \in ReminderIds : ReminderRecurse(r)

\* delivery with the scheduler running: records are scheduled, one of them may
\* be deleted, the clock moves, and the timer starts pass after pass
NextDelivery ==
  \/ ClockSteps
  \/ \E t \in TaskIds, off \in ScheduleOffsets, id \in 1..MaxShown :
       /\ api.op = "none"
       /\ ScheduleNotificationCall(t, now + off, FALSE, None, id)
  \/ PassCore({"timer"})
  \/ \E id \in 1..MaxShown : api.op = "none" /\ DeleteCall(id)

\* the interval timer keeps firing, and every await of a pass settles
SpecDelivery ==
  /\ Init
  /\ [][NextDelivery]_vars
  /\ WF_vars(PassRead("timer"))
  /\ WF_vars(PassShow("timer"))
  /\ WF_vars(PassMark("timer"))

\* task reminders: scheduleTaskReminder calls and the clock
NextReminder == ClockSteps \/ ReminderSteps

SpecReminder == Init /\ [][NextReminder]_vars

\* the same, with every call that can continue continuing
SpecReminderFair == Init /\ [][NextReminder]_vars /\ WF_vars(ReminderProgress)

\* addTask with a reminder time, once, then updateTask with other ones, and
\* the passes that deliver the reminders, for tasks that do not repeat
NextUpdateTask ==
  \/ ClockSteps
  \/ \E r \in ReminderIds, t \in TaskIds, off \in UpdateOffsets :
       /\ callLog[r].taskId = None
       /\ ReminderCall(r, t, now + off, FALSE, None)
  \/ \E r \in ReminderIds, id \in Ids : ReminderCreate(r, id)
  \/ \E r \in ReminderIds, t \in TaskIds, off \in UpdateOffsets :
       UpdateTask(r, t, now + off)
  \/ PassCore({"timer"})

SpecUpdateTask == Init /\ [][NextUpdateTask]_vars

----------------------------------------------------------------------------
\* The grouping function applied on its own to a list of due notifications

\* scheduled times of the lists, in milliseconds
GroupTimes == {0, 60000, 120000, 180000, 200000}

GroupItems == [scheduledTime : GroupTimes, priority : Priorities]

InitGrouping ==
  /\ now = 0
  /\ ticks = 0
  /\ variant = "grouping"
  /\ tasks = TaskIds
  /\ store = {}
  /\ pass = [p \in PassIds |-> IdlePass]
  /\ snooze = [s \in SnoozeIds |-> IdleSnooze]
  /\ reminder = [r \in ReminderIds |-> IdleReminder]
  /\ presented = [i \in Ids |-> 0]
  /\ meta = [i \in Ids |-> NoMeta]
  /\ callLog = [r \in ReminderIds |-> NoCall]
  /\ snoozeCalls = [t \in TaskIds |-> 0]
  /\ twice = NoTwice
  /\ gIn = <<>>
  /\ gWindow = 3 * 60 * 1000
  /\ gOut = <<>>
  /\ gDone = FALSE
  /\ AuxInit

\* one more due notification in the list, of at most MaxDue; its id is its place
GroupInput(item) ==
  /\ ~gDone
  /\ Len(gIn) < MaxDue
  /\ gIn' = Append(gIn, [id |-> Len(gIn) + 1, scheduledTime |-> item.scheduledTime,
                         priority |-> item.priority])
  /\ UNCHANGED <<now, ticks, variant, tasks, store, pass, snooze, reminder, presented,
                 meta, callLog, snoozeCalls, twice, gWindow, gOut, gDone, auxVars>>

GroupApply ==
  /\ ~gDone
  /\ gOut' = groupNotificationsByTimeAndPriority(gIn, gWindow)
  /\ gDone' = TRUE
  /\ UNCHANGED <<now, ticks, variant, tasks, store, pass, snooze, reminder, presented,
                 meta, callLog, snoozeCalls, twice, gIn, gWindow, auxVars>>

NextGrouping == (\E item \in GroupItems : GroupInput(item)) \/ GroupApply

SpecGrouping == InitGrouping /\ [][NextGrouping]_vars

\* lists that mix the priorities, some notifications having none
MixedItems == [scheduledTime : {0, 60000, 200000}, priority : Priorities \cup {None}]

NextGroupingMixed == (\E item \in MixedItems : GroupInput(item)) \/ GroupApply

SpecGroupingMixed == InitGrouping /\ [][NextGroupingMixed]_vars

----------------------------------------------------------------------------
\* Properties

SnoozeIdle == \A s \in SnoozeIds : snooze[s].pc = "idle"

TimesOf(seq) == [i \in 1..Len(seq) |-> seq[i].scheduledTime]

RECURSIVE Flatten(_)
Flatten(groups) ==
  IF groups = <<>> THEN <<>> ELSE Head(groups) \o Flatten(Tail(groups))

SamePriority(seq) == \A i, j \in 1..Len(seq) : seq[i].priority = seq[j].priority

\* seq holds the notifications of input by ascending scheduledTime, those of equal
\* time in their input order
AscendingOrderOf(seq, input) ==
  /\ Len(seq) = Len(input)
  /\ {seq[i] : i \in 1..Len(seq)} = {input[i] : i \in 1..Len(input)}
  /\ \A i, j \in 1..Len(seq) :
       i < j => \/ seq[i].scheduledTime < seq[j].scheduledTime
                \/ seq[i].scheduledTime = seq[j].scheduledTime /\ seq[i].id < seq[j].id

\* every member is within the window of its group's first member, and every group
\* but the first starts with a notification beyond the window of the group before
GreedyAnchored(groups, timeWindow) ==
  /\ \A g \in 1..Len(groups) :
       /\ groups[g] # <<>>
       /\ \A i \in 1..Len(groups[g]) :
            groups[g][i].scheduledTime - groups[g][1].scheduledTime <= timeWindow
  /\ \A g \in 1..(Len(groups) - 1) :
       groups[g + 1][1].scheduledTime - groups[g][1].scheduledTime > timeWindow

\* C1: over every interleaving of evaluation passes, each record id is handed to
\* showNotification at most once.
C1_PresentedAtMostOnce == \A i \in Ids : presented[i] <= 1

\* C2: a pass that starts right after another pass ran to completion, with no time
\* elapsed and no other operation before, during or between them, finds no due and
\* untriggered record.
C2_SecondPassFindsNothing == twice.stage = "second" => twice.found = 0

\* C3: a stored record whose isTriggered is true is never stored with
\* isTriggered false again.
C3_TriggeredStaysTriggered ==
  [][\A n \in store : n.isTriggered =>
        \A m \in store' : m.id = n.id => m.isTriggered]_vars

\* C4: scheduleTaskReminder called with a reminder time at or before the clock
\* returns at once and starts nothing, and no record in the store comes from a
\* call whose reminder time was not after the clock, for repeating and
\* non-repeating tasks alike.
C4_PastReminderIsNoOp ==
  /\ \A r \in ReminderIds :
       callLog[r].taskId # None /\ callLog[r].reminderTime <= callLog[r].at
         => reminder[r].pc = "idle" /\ ~callLog[r].accepted
  /\ \A n \in store :
       meta[n.id].via = "reminder" => n.scheduledTime > meta[n.id].calledAt

\* a repeating task's reminder in the past has been turned down, and the store is
\* still empty
C4_Witness ==
  \E r \in ReminderIds :
    /\ callLog[r].taskId # None
    /\ callLog[r].isRepeating
    /\ callLog[r].reminderTime <= callLog[r].at
    /\ store = {}

\* C5: every record that scheduleTaskReminder, snoozeNotification or
\* scheduleRecurringNotification created has scheduledTime after createdAt.
C5_CreatedInFuture ==
  \A n \in store :
    meta[n.id].via \in {"reminder", "snooze", "recurring"}
      => n.scheduledTime > n.createdAt

\* C6: every record of a recurrence chain has the scheduledTime of the chain's
\* first record as its originalScheduledTime.
C6_ChainKeepsFirstTime ==
  \A n \in store : n.isRecurring => n.originalScheduledTime = meta[n.id].first

\* C7: a record scheduleTaskReminder creates for a repeating task has
\* isRecurring true and the task's interval as recurringPattern.
C7_RepeatingReminderIsRecurring ==
  \A n \in store :
    meta[n.id].via = "reminder" /\ meta[n.id].interval # None
      => n.isRecurring /\ n.recurringPattern = meta[n.id].interval

\* C8: for due notifications of one priority the result is the greedy anchor
\* partition of the ascending-scheduledTime order; times 0, 60000, 120000, 200000
\* with window 180000 give [0, 60000, 120000] and [200000].
C8_GreedyAnchorPartition ==
  gDone /\ SamePriority(gIn) =>
    /\ AscendingOrderOf(Flatten(gOut), gIn)
    /\ GreedyAnchored(gOut, gWindow)
    /\ TimesOf(gIn) = <<0, 60000, 120000, 200000>> /\ gWindow = 180000
         => /\ Len(gOut) = 2
            /\ TimesOf(gOut[1]) = <<0, 60000, 120000>>
            /\ TimesOf(gOut[2]) = <<200000>>

\* the times 0, 60000, 120000, 200000 of one priority have been grouped
C8_Witness ==
  /\ gDone
  /\ SamePriority(gIn)
  /\ TimesOf(gIn) = <<0, 60000, 120000, 200000>>
  /\ Len(gOut) = 2

\* C9: the record snoozeNotification creates has priority high exactly when the
\* snoozeCount computed for it is greater than 2, and normal otherwise; the first
\* and the second snooze of a task give normal, the third and later ones high.
C9_SnoozePriority ==
  \A n \in store :
    meta[n.id].via = "snooze" =>
      /\ n.priority = (IF meta[n.id].count > 2 THEN "high" ELSE "normal")
      /\ meta[n.id].call <= 2 => n.priority = "normal"
      /\ meta[n.id].call >= 3 => n.priority = "high"

\* C10: once the snoozeNotification calls made so far have returned, the record
\* that the k-th call for a task created has k as its stored snoozeCount.
C10_KthSnoozeStoresK ==
  SnoozeIdle =>
    \A n \in store :
      meta[n.id].via = "snooze" => n.snoozeCount = meta[n.id].call

\* C11: the snoozeCount a snoozeNotification call computes comes from the store
\* alone, whatever other calls are in flight: it never exceeds the number of
\* calls made for the task, so increments are lost and never made up.
C11_IncrementsOnlyLost ==
  /\ \A s \in SnoozeIds :
       snooze[s].pc \in {"create", "reread", "put"}
         => snooze[s].snoozeCount <= snoozeCalls[snooze[s].taskId]
  /\ \A n \in store :
       meta[n.id].via = "snooze" =>
         meta[n.id].count <= snoozeCalls[n.taskId] /\ n.snoozeCount <= snoozeCalls[n.taskId]

\* two calls for one task are in flight at once, both read a current snoozeCount
\* of 1, and each is about to store 2 on the record it created
C11_Witness ==
  \E s, t \in SnoozeIds :
    /\ s # t
    /\ snooze[s].pc = "put" /\ snooze[t].pc = "put"
    /\ snooze[s].taskId = snooze[t].taskId
    /\ snooze[s].newNotification[1].id # snooze[t].newNotification[1].id
    /\ snooze[s].newNotification[1].snoozeCount = 2
    /\ snooze[t].newNotification[1].snoozeCount = 2
    /\ meta[snooze[s].newNotification[1].id].call = snooze[s].call
    /\ meta[snooze[t].newNotification[1].id].call = snooze[t].call

\* C12: the record scheduleTaskReminder stores has category overdue when a due
\* date is given and dueDate - reminderTime <= 0, deadline when that gap is over
\* 0 and at most one hour, reminder otherwise and when no due date is given; its
\* priority is the one the caller gave, else high for overdue and normal otherwise.
C12_CategoryAndPriority ==
  [][\A r \in ReminderIds :
       reminder[r].pc = "create" /\ reminder'[r].pc # "create" =>
         LET rm == reminder[r]
             gap == rm.taskDueDate - rm.reminderTime
             category == IF rm.taskDueDate # 0 /\ gap <= 0 THEN "overdue"
                         ELSE IF rm.taskDueDate # 0 /\ gap <= 3600 THEN "deadline"
                         ELSE "reminder"
             priority == IF rm.priority # None THEN rm.priority
                         ELSE IF category = "overdue" THEN "high" ELSE "normal"
         IN \E n \in store' \ store :
              /\ store' = store \cup {n}
              /\ n.scheduledTime = rm.reminderTime
              /\ n.category = category
              /\ n.priority = priority]_vars

\* records of all three categories are stored, one of them overdue with the
\* reminder time equal to the due date and the caller's priority low
C12_Witness ==
  /\ \E n \in store : n.category = "overdue" /\ n.taskDueDate = n.scheduledTime
                       /\ n.priority = "low"
  /\ \E n \in store : n.category = "deadline" /\ n.taskDueDate = n.scheduledTime + 3600
  /\ \E n \in store : n.category = "reminder" /\ n.taskDueDate = 0

\* C13: in both builds at most one interval timer is active, and none when the
\* last call was stopNotificationScheduler.
C13_AtMostOneInterval ==
  /\ Cardinality(sched.intervals) <= 1
  /\ sched.lastCall = "stop" => sched.intervals = {}

\* C14: once stopNotificationScheduler has returned, no visibilitychange or focus
\* listener of the scheduler is attached, no debounced check is pending, and no
\* tick, visibility change or focus event has started an evaluation pass.
C14_StoppedIsQuiet ==
  sched.lastCall = "stop" =>
    /\ sched.visibility = {} /\ sched.focus = {}
    /\ sched.pendingVisibility = {} /\ sched.pendingFocus = {}
    /\ ~sched.passSince

\* C15: when an evaluation pass ends without a storage failure, every record it
\* found due and untriggered is stored as triggered, whether showNotification
\* displayed it, caught an error of the display call, or returned for want of
\* permission.
C15_MarkedWhateverShown ==
  [][\A p \in PassIds :
       (/\ pass[p].pc # "idle"
        /\ pass'[p].pc = "idle"
        /\ ~(pass[p].pc = "mark" /\ ~HasId(store, Head(pass[p].cur).id)))
         => \A id \in pass[p].seen :
              \E n \in store' : n.id = id /\ n.isTriggered]_vars

\* a pass has ended after a showNotification call that displayed nothing, and
\* the record it found due is triggered
C15_Witness ==
  /\ \A p \in PassIds : pass[p].pc = "idle"
  /\ ui.last.permission \in {"default", "denied"}
  /\ \E n \in store : n.isTriggered /\ presented[n.id] = 1

\* C16: showNotification uses neither the service worker registration nor an
\* in-page Notification, and throws nothing, unless the permission it got from
\* the browser or from the prompt is granted.
C16_NoDisplayWithoutPermission ==
  ui.last.permission # "granted" => ui.last.channel = "none" /\ ~ui.last.threw

\* showNotification ran with the permission left at default after the prompt
\* and used no channel
C16_Witness ==
  /\ ui.last.permission = "default"
  /\ ui.last.channel = "none"
  /\ \E i \in Ids : presented[i] > 0

\* C17: markNotificationTriggered(id) on a store that holds id resolves and
\* changes that record's isTriggered to true and nothing else; on a store
\* without id it rejects with "Notification not found" and the store stays as
\* it was.
C17_MarkSetsOrRejects ==
  [][(api' # api /\ api'.op = "mark") =>
       IF HasId(store, api'.id)
       THEN /\ api'.outcome = "resolved"
            /\ store' = (store \ {Get(store, api'.id)})
                           \cup {[Get(store, api'.id) EXCEPT !.isTriggered = TRUE]}
       ELSE /\ api'.outcome = "rejected"
            /\ api'.error = "Notification not found"
            /\ store' = store]_vars

\* markNotificationTriggered was called with an id the non-empty store does not
\* hold, and rejected
C17_Witness ==
  /\ api.op = "mark"
  /\ ~api.had
  /\ api.outcome = "rejected"
  /\ store # {}

\* C18: deleteScheduledNotification(id) leaves no record with that id, and
\* rejects when the store held no record with that id.
C18_DeleteRejectsAbsent ==
  [][(api' # api /\ api'.op = "delete") =>
       /\ ~HasId(store', api'.id)
       /\ (~HasId(store, api'.id) => api'.outcome = "rejected")]_vars

\* C19: once deleteTask(id) has resolved and the calls that were in flight
\* have ended, the store holds no notification of the task.
C19_CascadeLeavesNone ==
  (del.pc = "resolved" /\ Quiet) => \A n \in store : n.taskId # del.taskId

\* C20: every click on a complete, snooze-10 or snooze-60 action ends with the
\* NOTIFICATION_ACTION message posted to every open page, at least one, or
\* with the action stored in the pending-actions store of the app's database.
C20_ActionNeverDropped ==
  \A i \in DOMAIN sw.log :
    \/ sw.log[i].outcome = "opening"
    \/ sw.log[i].outcome = "posted" /\ sw.log[i].pages > 0
    \/ sw.log[i].outcome = "stored"

\* C21: a click on any button of an alert of the evaluator, single or grouped,
\* ends with the action posted to an open page or stored for later.
C21_EveryButtonHandled ==
  \A i \in DOMAIN sw.log : sw.log[i].outcome \in {"opening", "posted", "stored"}

\* C22: a call of the evaluator that ends on a storage failure leaves every
\* interval timer of the scheduler active, and while a timer is active its tick
\* can invoke the evaluator again, in both builds.
C22_TimerSurvivesFailure ==
  /\ [][(sched.running /\ ~sched'.running /\ sched'.lastEnd \in {"logged", "unhandled"})
          => sched'.intervals = sched.intervals]_vars
  /\ [](sched.failed => \A g \in sched.intervals : ENABLED IntervalTick(g))

\* after a storage failure that nothing caught, a tick has invoked the evaluator
\* again
C22_Witness ==
  /\ sched.failed
  /\ sched.lastEnd = "unhandled"
  /\ sched.invokedAfter
  /\ sched.running
  /\ sched.starts = 1
  /\ sched.intervals = {1}

\* the fields of a record no operation is to change
SameFixedFields(n, m) ==
  /\ m.taskId = n.taskId
  /\ m.title = n.title
  /\ m.scheduledTime = n.scheduledTime
  /\ m.createdAt = n.createdAt
  /\ m.priority = n.priority
  /\ m.category = n.category
  /\ m.originalScheduledTime = n.originalScheduledTime

\* C23: a stored record keeps its fixed fields in every step; its isTriggered
\* changes only in the mark step of a pass on that record, which changes nothing
\* else; its snoozeCount changes only in the patch step of a snooze, which
\* changes nothing else.
C23_OnlyFlagAndCount ==
  [][\A n \in store : \A m \in store' : m.id = n.id =>
        /\ SameFixedFields(n, m)
        /\ m.isTriggered # n.isTriggered =>
             /\ \E p \in PassIds : pass[p].pc = "mark" /\ Head(pass[p].cur).id = n.id
             /\ m.snoozeCount = n.snoozeCount
        /\ m.snoozeCount # n.snoozeCount =>
             /\ \E c \in SnoozeIds : snooze[c].pc = "put" /\ snooze[c].newNotification[1].id = n.id
             /\ m.isTriggered = n.isTriggered]_vars

\* the distance in time one interval unit of a pattern can be
IntervalUnits(pattern) ==
  CASE pattern = "daily" -> {Day}
    [] pattern = "weekly" -> {7 * Day}
    [] pattern = "monthly" -> {d * Day : d \in 28..31}

\* C24: the recurrence step of a pass, for the delivered record R, adds exactly
\* one record: untriggered, of R's task, scheduled one interval unit after
\* R.originalScheduledTime and later than R.scheduledTime, recurring with R's
\* pattern, priority, category and due date.
C24_OneFollowUp ==
  [][\A p \in PassIds : (pass[p].pc = "recur" /\ pass'[p] # pass[p]) =>
        LET R == Head(pass[p].cur) IN
        /\ Cardinality(store' \ store) = 1
        /\ store \subseteq store'
        /\ \A m \in store' \ store :
             /\ m.taskId = R.taskId
             /\ ~m.isTriggered
             /\ (m.scheduledTime - R.originalScheduledTime) \in IntervalUnits(R.recurringPattern)
             /\ m.scheduledTime > R.scheduledTime
             /\ m.isRecurring
             /\ m.recurringPattern = R.recurringPattern
             /\ m.priority = R.priority
             /\ m.category = R.category
             /\ m.taskDueDate = R.taskDueDate]_vars

\* a weekly notification of high priority with a due date was delivered and its
\* follow-up is stored
C24_Witness ==
  \E n \in store, m \in store :
    /\ n.isTriggered /\ n.recurringPattern = "weekly" /\ n.priority = "high"
    /\ n.taskDueDate # 0
    /\ meta[m.id].via = "recurring"
    /\ m.scheduledTime = n.scheduledTime + 7 * Day

\* C25: in the debounced build, started once, the debounced checks of one
\* burst of visibility and focus events start at most one pass.
C25_BurstStartsOnePass ==
  (variant = "debounced" /\ sched.starts = 1) => sched.burstPasses <= 1

RankOf(n) == IF n.priority = "high" THEN 3 ELSE IF n.priority = "low" THEN 1 ELSE 2

\* C27: the groups are non-empty, every notification of the input is in exactly
\* one group, and the groups one after the other are the input in descending
\* priority and, within a priority, ascending scheduledTime.
C27_GroupsPartitionSorted ==
  gDone =>
    LET flat == Flatten(gOut) IN
    /\ \A g \in 1..Len(gOut) : gOut[g] # <<>>
    /\ Len(flat) = Len(gIn)
    /\ \A k \in 1..Len(gIn) : Cardinality({i \in 1..Len(flat) : flat[i] = gIn[k]}) = 1
    /\ \A i, j \in 1..Len(flat) :
         i < j => \/ RankOf(flat[i]) > RankOf(flat[j])
                  \/ /\ RankOf(flat[i]) = RankOf(flat[j])
                     /\ flat[i].scheduledTime <= flat[j].scheduledTime

\* a list with a low, a priority-less and a high notification, in that order, the
\* high one earliest, has been grouped into more than one group
C27_Witness ==
  /\ gDone
  /\ Len(gIn) = 3
  /\ gIn[1].priority = "low" /\ gIn[2].priority = None /\ gIn[3].priority = "high"
  /\ gIn[1].scheduledTime = 60000 /\ gIn[2].scheduledTime = 200000 /\ gIn[3].scheduledTime = 0
  /\ Len(gOut) > 1

C29_PresentedAreMarked ==
  (variant = "grouping" /\ pass["timer"].pc = "idle") =>
    \A n \in store : presented[n.id] >= 1 => n.isTriggered

\* C30: once updateTask with a new future reminder time has resolved, every
\* untriggered notification of the task is scheduled at the new time, and
\* there is at most one.
C30_UpdateReplacesReminder ==
  \A r \in ReminderIds :
    (reminder[r].pc = "idle" /\ callLog[r].byUpdate /\ callLog[r].accepted) =>
      LET pending == {n \in store : n.taskId = callLog[r].taskId /\ ~n.isTriggered} IN
      /\ \A n \in pending : n.scheduledTime = callLog[r].reminderTime
      /\ Cardinality(pending) <= 1

====
